---- MODULE Spec2Model ----
(***************************************************************************)
(* SpinnyLock (src/src/main.rs): a needle rotates around a ring, the       *)
(* player presses Space while the needle overlaps the target zone.         *)
(*                                                                         *)
(* The program is a Bevy App.  One frame of the App is modelled as         *)
(*   BeginFrame            input update, delivery of the collision events  *)
(*                         written by the physics step of the previous     *)
(*                         frame, the StateTransition schedule (which      *)
(*                         applies NextState and runs OnEnter(GameOver))   *)
(*   the Update systems    reverse_rotate_direction, rotate_line,          *)
(*                         move_anulus_segment, check_for_collision        *)
(* The four Update systems are added as a plain tuple (main.rs:35-44),     *)
(* without .chain() / .before() / .after(): the schedule gives no order    *)
(* between them, so each frame runs them once each in any order.           *)
(*                                                                         *)
(* move_anulus_segment is gated by score.is_changed(): true when Score was  *)
(* added or mutably dereferenced since that system last ran, hence true on *)
(* its first run (Score is inserted by setup) and after every score.0 += 1 *)
(* it has not yet seen.                                                    *)
(*                                                                         *)
(* Speeds are f32 multiples of 0.5 in [-10, 10.5], all exactly             *)
(* representable; the model counts them in units of 0.5 (2 is 1.0).        *)
(***************************************************************************)
EXTENDS Integers, Sequences, FiniteSets, TLC

VARIABLES
    state,                      \* State<GameState>
    next_state,                 \* NextState<GameState>: "Unchanged" or the pending state
    score,                      \* Score.0
    score_changed,              \* Score changed (or was added) since move_anulus_segment last ran
    segments_are_intersecting,  \* SegmentsAreIntersecting.0
    rotation_speed,             \* RotationSpeed.0 of the needle, in units of 0.5
    needle_rotation,            \* rotation of the needle's Transform, in angle units mod FullTurn
    target_rotation,            \* rotation of the target zone's Transform
    score_text,                 \* the Text of the ScoreText entity
    game_over_texts,            \* number of "Game Over" texts spawned
    pressed,                    \* ButtonInput: Space is held
    just_pressed,               \* ButtonInput: keyboard.just_pressed(KeyCode::Space) in this frame
    collision_events,           \* the events the EventReader yields in this frame
    physics_stepped,            \* the physics step has run at least once
    pending,                    \* Update systems that have not yet run in this frame
    key_events,                 \* the Space key events the input system received in this frame
    resolution,                 \* create_annulus_segment: let resolution
    radius_extend,              \* create_annulus_segment: let radius_extend, in degrees
    segment_mesh,               \* outcome of create_annulus_segment: the target zone's mesh
    line_mesh                   \* outcome of create_rotating_line: the needle's mesh

vars == <<state, next_state, score, score_changed, segments_are_intersecting,
          rotation_speed, needle_rotation, target_rotation, score_text,
          game_over_texts, pressed, just_pressed, collision_events,
          physics_stepped, pending, key_events,
          resolution, radius_extend, segment_mesh, line_mesh>>

\* what the Startup systems that build the meshes read and write
geometry == <<resolution, radius_extend, segment_mesh, line_mesh>>

\* everything else
game == <<state, next_state, score, score_changed, segments_are_intersecting,
          rotation_speed, needle_rotation, target_rotation, score_text,
          game_over_texts, pressed, just_pressed, collision_events,
          physics_stepped, pending, key_events>>

----------------------------------------------------------------------------
(* Bounds of the model *)

MaxScore == 6       \* Spec: Space presses are offered only while score < MaxScore
KeysMaxScore == 2   \* SpecKeys: the same limit
CapMaxScore == 36   \* SpecCap: the same limit, high enough for the speed to reach 10.0
MaxEvents == 2      \* collision events delivered per frame
MaxKeyEvents == 2   \* Space press / release events delivered per frame
NumAngles == 2      \* orientations the random relocation draws from
FullTurn == 3       \* angle units in a full turn of the needle
MaxResolution == 6  \* SpecGeom: resolutions 0 .. MaxResolution are tried
MaxRadiusExtend == 2 \* SpecGeom: half-spans 0 .. MaxRadiusExtend degrees (and 25) are tried

(* Program constants, in units of 0.5 *)

InitialSpeed == 2   \* RotationSpeed(1.)
SpeedStep == 1      \* rotation_speed.0 += 0.5
SpeedCap == 20      \* rotation_speed.0 < 10.

(* Program constants of the geometry *)

TargetResolution == 5       \* let resolution = 5
TargetRadiusExtend == 25    \* let radius_extend: f32 = 25.
SegmentInnerRadius == 43
SegmentOuterRadius == 52
LineInnerRadius == 40
LineOuterRadius == 55

----------------------------------------------------------------------------
(* Helpers *)

Abs(x) == IF x < 0 THEN -x ELSE x

Sign(x) == IF x < 0 THEN -1 ELSE IF x > 0 THEN 1 ELSE 0

Systems == {"reverse_rotate_direction", "rotate_line",
            "move_anulus_segment", "check_for_collision"}

EventKinds == {"Started", "Stopped"}

RECURSIVE SeqsUpTo(_, _)
SeqsUpTo(S, n) ==
    IF n = 0 THEN {<<>>}
    ELSE LET shorter == SeqsUpTo(S, n - 1)
         IN  shorter \cup {Append(s, e) : s \in {t \in shorter : Len(t) = n - 1}, e \in S}

EventBatches == SeqsUpTo(EventKinds, MaxEvents)

KeyEventBatches == SeqsUpTo({"Press", "Release"}, MaxKeyEvents)

Angles == 0 .. (NumAngles - 1)

----------------------------------------------------------------------------
(* Pure parts of the systems *)

RunConditionAlways(st) == TRUE

\* run_if(in_state(GameState::Playing))
RunCondition(st) == st = "Playing"

\* a Press event sets just_pressed even when the key is already held (key repeat)
RECURSIVE ApplyKeyEventsRepeat(_, _)
ApplyKeyEventsRepeat(input, evs) ==
    IF evs = <<>> THEN input
    ELSE ApplyKeyEventsRepeat(
            IF Head(evs) = "Press"
            THEN [held |-> TRUE, just |-> TRUE]
            ELSE [held |-> FALSE, just |-> input.just],
            Tail(evs))

\* ButtonInput<KeyCode> for Space, [held, just]: just_pressed is cleared at the start of
\* the frame; press() sets it only when the key was not already held; release() clears held
RECURSIVE ApplyKeyEvents(_, _)
ApplyKeyEvents(input, evs) ==
    IF evs = <<>> THEN input
    ELSE ApplyKeyEvents(
            IF Head(evs) = "Press"
            THEN [held |-> TRUE, just |-> input.just \/ ~input.held]
            ELSE [held |-> FALSE, just |-> input.just],
            Tail(evs))

\* keyboard.just_pressed(KeyCode::Space) after this frame's key events
JustPressed(held, evs) == ApplyKeyEvents([held |-> held, just |-> FALSE], evs).just

Pressed(held, evs) == ApplyKeyEvents([held |-> held, just |-> FALSE], evs).held

OnCollisionEventToggle(flag, ev) == ~flag

\* check_for_collision: one event
OnCollisionEvent(flag, ev) ==
    IF ev = "Started" THEN TRUE ELSE FALSE

\* check_for_collision: the loop over collision_events.read()
RECURSIVE ApplyEvents(_, _)
ApplyEvents(flag, evs) ==
    IF evs = <<>> THEN flag
    ELSE ApplyEvents(OnCollisionEvent(flag, Head(evs)), Tail(evs))

\* rotation_speed.0 *= -1.
ReverseSpeed(v) == -v

ScoreResetOnMiss(s, hit) == IF hit THEN s + 1 ELSE 0

ScoreDoubleCount(s, hit) == IF hit THEN s + 2 ELSE s

\* score.0 += 1 in the hit branch; the miss branch does not touch Score
ScoreAfterCommit(s, hit) == IF hit THEN s + 1 ELSE s

NextStateNeverSet(ns, hit) == ns

\* next_state.set(GameState::GameOver) in the miss branch
NextStateAfterCommit(ns, hit) == IF hit THEN ns ELSE "GameOver"

IntersectingConsumed(flag) == FALSE

\* segments_are_intersecting is Res<>, read only, in reverse_rotate_direction
IntersectingAfterCommit(flag) == flag

DigitChars == <<"0", "1", "2", "3", "4", "5", "6", "7", "8", "9">>

\* Display of a u32 ("{}"): its decimal digits, most significant first
RECURSIVE ToDecimal(_)
ToDecimal(n) ==
    IF n < 10 THEN <<DigitChars[n + 1]>>
    ELSE Append(ToDecimal(n \div 10), DigitChars[(n % 10) + 1])

FormatScoreBeforeIncrement(n) == <<"Score: ">> \o ToDecimal(n - 1)

\* format!("Score: {}", score.0), as a sequence of text pieces
FormatScore(n) == <<"Score: ">> \o ToDecimal(n)

\* if rotation_speed.0 < 10. { rotation_speed.0 += 0.5 }
RampSpeed(v) == IF v < SpeedCap THEN v + SpeedStep ELSE v

RotateForward(angle, v) == (angle + v) % FullTurn

\* transform.rotation *= Quat::from_rotation_z(-rotation_speed.0 * dt), dt one time unit
RotateBy(angle, v) == (angle - v) % FullTurn

GameOverTextsEveryFrame(n, old, new) == IF new = "GameOver" THEN n + 1 ELSE n

\* OnEnter(GameState::GameOver) runs game_over_screen, which spawns one "Game Over" text
GameOverTextsAfterTransition(n, old, new) ==
    IF new = "GameOver" /\ old # "GameOver" THEN n + 1 ELSE n

----------------------------------------------------------------------------
(* Geometry built by the Startup systems.  A vertex [sin(a) * r, cos(a) * r, 0] is     *)
(* kept as <<a, r>>; the angle a of the target zone is the exact quotient              *)
(* <<numerator, resolution>> of start_angle + i * angle_increment in degrees (f32      *)
(* rounding is left out), and "NaN" when resolution is 0 (0.0 * inf).                  *)

SegmentAngle(n, ext, i) ==
    IF n = 0 THEN "NaN" ELSE <<(0 - ext) * n + i * (ext - (0 - ext)), n>>

\* for i in 0..=resolution { push inner vertex; push outer vertex }
SegmentVertices(n, ext) ==
    [k \in 1 .. 2 * (n + 1) |->
        <<SegmentAngle(n, ext, (k - 1) \div 2),
          IF k % 2 = 1 THEN SegmentInnerRadius ELSE SegmentOuterRadius>>]

IndexLoopEndOneMore(n) == n * 2 + 1

\* the end of the range 0..resolution * 2 - 1
IndexLoopEnd(n) == n * 2 - 1

\* for i in (0..end).step_by(2) { extend [i, i+2, i+1]; extend [i+1, i+2, i+3] }
RECURSIVE SegmentIndices(_, _)
SegmentIndices(i, end) ==
    IF i >= end THEN <<>>
    ELSE <<i, i + 2, i + 1, i + 1, i + 2, i + 3>> \o SegmentIndices(i + 2, end)

\* indices.chunks(3).map(|chunk| [chunk[0], chunk[1], chunk[2]])
Chunks3(indices) ==
    [j \in 1 .. (Len(indices) \div 3) |->
        <<indices[3 * j - 2], indices[3 * j - 1], indices[3 * j]>>]

NotBuilt == [status |-> "NotBuilt", vertices |-> <<>>, indices |-> <<>>, triangles |-> <<>>]

\* The outcomes of create_annulus_segment.  resolution is a u32: with resolution = 0 the
\* subtraction resolution * 2 - 1 overflows, which panics in a build with overflow checks
\* and wraps to u32::MAX otherwise (the index loop then does not end within memory).
BuildSegment(n, ext) ==
    IF n * 2 < 1
    THEN {[NotBuilt EXCEPT !.status = "PanicSubtractOverflow"],
          [NotBuilt EXCEPT !.status = "IndexLoopWrapped"]}
    ELSE {[status |-> "Spawned",
           vertices |-> SegmentVertices(n, ext),
           indices |-> SegmentIndices(0, IndexLoopEnd(n)),
           triangles |-> Chunks3(SegmentIndices(0, IndexLoopEnd(n)))]}

\* create_rotating_line: angles -PI/64 and PI/64 (kept as -1 and 1), indices written out
BuildLine ==
    [status |-> "Spawned",
     vertices |-> <<<<-1, LineInnerRadius>>, <<-1, LineOuterRadius>>,
                    <<1, LineInnerRadius>>, <<1, LineOuterRadius>>>>,
     indices |-> <<0, 2, 1, 2, 3, 1>>,
     triangles |-> Chunks3(<<0, 2, 1, 2, 3, 1>>)]

RadiusExtends == (0 .. MaxRadiusExtend) \cup {TargetRadiusExtend}

----------------------------------------------------------------------------
\* the resources and components after the Startup schedule
GameInit ==
    /\ state = "Playing"
    /\ next_state = "Unchanged"
    /\ score = 0
    /\ score_changed = TRUE
    /\ segments_are_intersecting = FALSE
    /\ rotation_speed = InitialSpeed
    /\ needle_rotation = 0
    /\ target_rotation = 0
    /\ score_text = <<"Score: ", "0">>
    /\ game_over_texts = 0
    /\ pressed = FALSE
    /\ just_pressed = FALSE
    /\ collision_events = <<>>
    /\ physics_stepped = FALSE
    /\ pending = {}
    /\ key_events = <<>>

\* the program: both meshes built from the values written in the source
Init ==
    /\ GameInit
    /\ resolution = TargetResolution
    /\ radius_extend = TargetRadiusExtend
    /\ segment_mesh \in BuildSegment(TargetResolution, TargetRadiusExtend)
    /\ line_mesh = BuildLine

\* First .. StateTransition of one frame, and the run condition of the Update systems.
\* `record` keeps the frame's key events in key_events, for the properties of the input.
BeginFrameWith(limit, record) ==
    /\ pending = {}
    /\ \E keys \in KeyEventBatches :
          /\ (JustPressed(pressed, keys) => score < limit)
          /\ just_pressed' = JustPressed(pressed, keys)
          /\ pressed' = Pressed(pressed, keys)
          /\ key_events' = IF record THEN keys ELSE <<>>
    /\ state' = IF next_state = "Unchanged" THEN state ELSE next_state
    /\ next_state' = "Unchanged"
    /\ game_over_texts' = GameOverTextsAfterTransition(game_over_texts, state, state')
    /\ pending' = IF RunCondition(state') THEN Systems ELSE {}
    /\ IF physics_stepped /\ RunCondition(state')
       THEN collision_events' \in EventBatches
       ELSE collision_events' = <<>>
    /\ physics_stepped' = TRUE
    /\ UNCHANGED <<score, score_changed, segments_are_intersecting, rotation_speed,
                   needle_rotation, target_rotation, score_text>>
    /\ UNCHANGED geometry

reverse_rotate_direction ==
    /\ "reverse_rotate_direction" \in pending
    /\ pending' = pending \ {"reverse_rotate_direction"}
    /\ IF just_pressed
       THEN /\ rotation_speed' = ReverseSpeed(rotation_speed)
            /\ score' = ScoreAfterCommit(score, segments_are_intersecting)
            /\ score_changed' = (score_changed \/ segments_are_intersecting)
            /\ score_text' = IF segments_are_intersecting
                             THEN FormatScore(score') ELSE score_text
            /\ next_state' = NextStateAfterCommit(next_state, segments_are_intersecting)
            /\ segments_are_intersecting' = IntersectingAfterCommit(segments_are_intersecting)
       ELSE UNCHANGED <<rotation_speed, score, score_changed, score_text, next_state,
                        segments_are_intersecting>>
    /\ UNCHANGED <<state, needle_rotation, target_rotation, game_over_texts, pressed,
                   just_pressed, collision_events, physics_stepped, key_events>>
    /\ UNCHANGED geometry

rotate_line ==
    /\ "rotate_line" \in pending
    /\ pending' = pending \ {"rotate_line"}
    /\ needle_rotation' = RotateBy(needle_rotation, rotation_speed)
    /\ UNCHANGED <<state, next_state, score, score_changed, segments_are_intersecting,
                   rotation_speed, target_rotation, score_text, game_over_texts, pressed,
                   just_pressed, collision_events, physics_stepped, key_events>>
    /\ UNCHANGED geometry

move_anulus_segment ==
    /\ "move_anulus_segment" \in pending
    /\ pending' = pending \ {"move_anulus_segment"}
    /\ IF ~score_changed
       THEN UNCHANGED <<target_rotation, rotation_speed>>
       ELSE /\ target_rotation' \in Angles
            /\ rotation_speed' = RampSpeed(rotation_speed)
    /\ score_changed' = FALSE
    /\ UNCHANGED <<state, next_state, score, segments_are_intersecting, needle_rotation,
                   score_text, game_over_texts, pressed, just_pressed, collision_events,
                   physics_stepped, key_events>>
    /\ UNCHANGED geometry

check_for_collision ==
    /\ "check_for_collision" \in pending
    /\ pending' = pending \ {"check_for_collision"}
    /\ segments_are_intersecting' = ApplyEvents(segments_are_intersecting, collision_events)
    /\ UNCHANGED <<state, next_state, score, score_changed, rotation_speed, needle_rotation,
                   target_rotation, score_text, game_over_texts, pressed, just_pressed,
                   collision_events, physics_stepped, key_events>>
    /\ UNCHANGED geometry

BeginFrameUpTo(limit) == BeginFrameWith(limit, FALSE)

BeginFrame == BeginFrameUpTo(MaxScore)

BeginFrameKeys == BeginFrameWith(KeysMaxScore, TRUE)

BeginFrameCap == BeginFrameUpTo(CapMaxScore)

Next ==
    \/ BeginFrame
    \/ reverse_rotate_direction
    \/ rotate_line
    \/ move_anulus_segment
    \/ check_for_collision

Spec == Init /\ [][Next]_vars

\* The same program, played long enough for the speed to reach the cap.
NextCap ==
    \/ BeginFrameCap
    \/ reverse_rotate_direction
    \/ rotate_line
    \/ move_anulus_segment
    \/ check_for_collision

SpecCap == Init /\ [][NextCap]_vars

\* The same program, with each frame's key events kept for the properties of the input.
NextKeys ==
    \/ BeginFrameKeys
    \/ reverse_rotate_direction
    \/ rotate_line
    \/ move_anulus_segment
    \/ check_for_collision

SpecKeys == Init /\ [][NextKeys]_vars

----------------------------------------------------------------------------
(* The mesh builders on their own, with resolution and radius_extend drawn from      *)
(* bounded sets: the Startup systems create_annulus_segment and create_rotating_line *)
(* (an unordered tuple, main.rs:31-34) run once each.                                *)

InitGeom ==
    /\ GameInit
    /\ resolution \in 0 .. MaxResolution
    /\ radius_extend \in RadiusExtends
    /\ segment_mesh = NotBuilt
    /\ line_mesh = NotBuilt

create_annulus_segment ==
    /\ segment_mesh = NotBuilt
    /\ segment_mesh' \in BuildSegment(resolution, radius_extend)
    /\ UNCHANGED <<resolution, radius_extend, line_mesh>>
    /\ UNCHANGED game

create_rotating_line ==
    /\ line_mesh = NotBuilt
    /\ line_mesh' = BuildLine
    /\ UNCHANGED <<resolution, radius_extend, segment_mesh>>
    /\ UNCHANGED game

NextGeom ==
    \/ create_annulus_segment
    \/ create_rotating_line

SpecGeom == InitGeom /\ [][NextGeom]_vars

----------------------------------------------------------------------------
(* Steps the properties speak about *)

\* reverse_rotate_direction runs and finds Space just pressed: a commit is processed
CommitStep ==
    /\ "reverse_rotate_direction" \in pending
    /\ "reverse_rotate_direction" \notin pending'
    /\ just_pressed

\* move_anulus_segment runs and finds Score changed: relocation and speed ramp
RampStep ==
    /\ "move_anulus_segment" \in pending
    /\ "move_anulus_segment" \notin pending'
    /\ score_changed

\* check_for_collision runs
CollisionStep ==
    /\ "check_for_collision" \in pending
    /\ "check_for_collision" \notin pending'

\* the frame is over and every effect of the commits so far has been applied
Settled == pending = {} /\ ~score_changed

----------------------------------------------------------------------------
(* C1: Score never decreases from one state to the next, and it changes     *)
(* only in a step taken while the game state is Playing.                    *)
C1_ScoreMonotoneWhilePlaying ==
    [][/\ score' >= score
       /\ (score' # score => state = "Playing")]_vars

\* a commit arrives in GameOver after points were scored
C1_Witness == state = "GameOver" /\ just_pressed /\ score >= 2

(* C2: GameOver is never left, and no step taken in GameOver (a frame with  *)
(* or without a commit) changes the speed, the Score or the target          *)
(* orientation.                                                             *)
C2_GameOverTerminal ==
    [][state = "GameOver" =>
          /\ state' = "GameOver"
          /\ rotation_speed' = rotation_speed
          /\ score' = score
          /\ target_rotation' = target_rotation]_vars

\* Space is pressed in a frame whose Update stage runs in GameOver
C2_Witness == state = "GameOver" /\ just_pressed /\ game_over_texts = 1

(* C3: a commit processed in Playing with the overlap flag false requests   *)
(* GameOver and leaves Score unchanged; the request is not withdrawn and    *)
(* Score stays frozen until the StateTransition schedule of the next frame  *)
(* applies it.                                                              *)
C3_MissEndsGame ==
    [][/\ (CommitStep /\ state = "Playing" /\ ~segments_are_intersecting) =>
            (next_state' = "GameOver" /\ score' = score)
       /\ (next_state = "GameOver") =>
            (score' = score /\ (next_state' = "GameOver" \/ state' = "GameOver"))]_vars

\* the first commit of a fresh game missed: GameOver with Score 0
C3_Witness == state = "GameOver" /\ score = 0 /\ game_over_texts = 1

(* C4: a commit processed in Playing with the overlap flag true increases   *)
(* Score by exactly 1 and requests no state change: the game stays Playing. *)
C4_HitScoresOne ==
    [][(CommitStep /\ state = "Playing" /\ segments_are_intersecting) =>
          /\ score' = score + 1
          /\ state' = "Playing"
          /\ next_state' = "Unchanged"]_vars

\* a fresh game after its first, successful, commit
C4_Witness == state = "Playing" /\ next_state = "Unchanged" /\ score = 1 /\ pending = {}

(* C5: a commit flips the sign of the speed (positive to negative or        *)
(* negative to positive), and the speed ramp that follows a successful      *)
(* commit keeps the sign the commit produced.                               *)
C5_CommitFlipsSign ==
    [][/\ CommitStep => (Sign(rotation_speed) # 0
                          /\ Sign(rotation_speed') = -Sign(rotation_speed))
       /\ RampStep => Sign(rotation_speed') = Sign(rotation_speed)]_vars

(* C6: with every effect applied, one successful commit of a fresh game     *)
(* gives magnitude 1.5 and five successful commits give magnitude 3.5       *)
(* (while the game is Playing every commit so far was successful).          *)
C6_RampByHalfPerScore ==
    (state = "Playing" /\ next_state = "Unchanged" /\ Settled /\ score \in {1, 5}) =>
        Abs(rotation_speed) = InitialSpeed + score * SpeedStep

(* C7: no step takes the magnitude of the speed to a smaller value.         *)
C7_MagnitudeNonDecreasing ==
    [][Abs(rotation_speed') >= Abs(rotation_speed)]_vars

(* C8: the magnitude of the speed never exceeds 10.0, and the ramp of a     *)
(* successful commit made at magnitude 10.0 leaves the magnitude at 10.0.   *)
C8_CappedAtTen ==
    /\ [](Abs(rotation_speed) <= SpeedCap)
    /\ [][(RampStep /\ Abs(rotation_speed) = SpeedCap) =>
             Abs(rotation_speed') = SpeedCap]_vars

(* C9: a commit processed in a frame whose collision events end with        *)
(* Stopped is decided on the flag those events leave (false): it is a miss, *)
(* GameOver is requested and Score is unchanged.                            *)
C9_CollisionBeforeInput ==
    [][(/\ CommitStep
        /\ state = "Playing"
        /\ collision_events # <<>>
        /\ collision_events[Len(collision_events)] = "Stopped") =>
          (next_state' = "GameOver" /\ score' = score)]_vars

(* C10: the overlap flag changes only in a step of check_for_collision; a   *)
(* commit, the relocation and the rotation update leave it unchanged.       *)
C10_OverlapOnlyByCollisionEvents ==
    [][segments_are_intersecting' # segments_are_intersecting => CollisionStep]_vars

\* a successful commit, its relocation and ramp, and the rotation update have all run
\* in a frame without collision events, and the flag is still true
C10_Witness ==
    /\ Settled /\ just_pressed /\ score >= 1 /\ state = "Playing"
    /\ next_state = "Unchanged" /\ collision_events = <<>> /\ segments_are_intersecting

(* C11: check_for_collision leaves the flag as the last event of the batch  *)
(* sets it (Started: true, Stopped: false) whatever it was before, so a     *)
(* repeated event changes nothing more; an empty batch leaves it alone.     *)
C11_LastEventWins ==
    [][CollisionStep =>
          segments_are_intersecting' =
             IF collision_events = <<>> THEN segments_are_intersecting
             ELSE collision_events[Len(collision_events)] = "Started"]_vars

\* a batch of two different events has been processed and the last one, Started, won
C11_Witness ==
    /\ state = "Playing" /\ "check_for_collision" \notin pending
    /\ collision_events = <<"Stopped", "Started">> /\ segments_are_intersecting

(* C12: the relocation and the ramp of a successful commit are in effect    *)
(* for the next frame: when rotate_line runs before this frame's input is   *)
(* processed, no relocation and ramp of an earlier frame's commit is still  *)
(* outstanding, so the rotation uses the ramped speed.                      *)
C12_NextRotationUsesRampedSpeed ==
    [][(/\ "rotate_line" \in pending
        /\ "rotate_line" \notin pending'
        /\ "reverse_rotate_direction" \in pending
        /\ score >= 1) => ~score_changed]_vars

(* C13: exactly one "Game Over" text exists once the state is GameOver and  *)
(* none while the game is Playing.                                          *)
C13_GameOverShownOnce ==
    game_over_texts = IF state = "GameOver" THEN 1 ELSE 0

\* several frames after the transition of a game that had scored
C13_Witness ==
    state = "GameOver" /\ game_over_texts = 1 /\ score >= 1 /\ pressed /\ ~just_pressed

DigitValue(c) == CHOOSE d \in 0 .. 9 : DigitChars[d + 1] = c

RECURSIVE ParseDecimal(_)
ParseDecimal(digits) ==
    IF Len(digits) = 1 THEN DigitValue(digits[1])
    ELSE 10 * ParseDecimal(SubSeq(digits, 1, Len(digits) - 1))
         + DigitValue(digits[Len(digits)])

(* C14: the score text is always "Score: " followed by the decimal digits   *)
(* of the current Score.                                                    *)
C14_ScoreTextShowsScore ==
    /\ Len(score_text) >= 2
    /\ Head(score_text) = "Score: "
    /\ ParseDecimal(Tail(score_text)) = score

\* the text after several increments
C14_Witness == score >= 3 /\ score_text = <<"Score: ", DigitChars[score + 1]>>

\* rotate_line runs
RotateStep ==
    /\ "rotate_line" \in pending
    /\ "rotate_line" \notin pending'

\* the triangle pattern of a tessellated wedge: quad j (from 0) gives triangles
\* (i, i+2, i+1) and (i+1, i+2, i+3) with i = 2j
PatternTriangle(k) ==
    LET i == 2 * ((k - 1) \div 2)
    IN  IF k % 2 = 1 THEN <<i, i + 2, i + 1>> ELSE <<i + 1, i + 2, i + 3>>

\* the same triangle with the same winding: equal up to rotating the three indices
SameTriangle(t, u) ==
    \/ t = u
    \/ t = <<u[2], u[3], u[1]>>
    \/ t = <<u[3], u[1], u[2]>>

(* C15: create_annulus_segment with resolution N >= 1 and a nonzero span    *)
(* spawns 2(N+1) vertices and 2N triangles, the triangles (i, i+2, i+1) and *)
(* (i+1, i+2, i+3) for i = 0, 2, .., 2N-2, every index below the vertex     *)
(* count (N = 5: 12 vertices, 10 triangles, indices in 0 .. 11); the needle *)
(* has 4 vertices and the 2 triangles of N = 1, indices in 0 .. 3.          *)
C15_MeshCounts ==
    /\ (segment_mesh # NotBuilt /\ resolution >= 1 /\ radius_extend # 0) =>
          /\ segment_mesh.status = "Spawned"
          /\ Len(segment_mesh.vertices) = 2 * (resolution + 1)
          /\ Len(segment_mesh.indices) = 3 * Len(segment_mesh.triangles)
          /\ Len(segment_mesh.triangles) = 2 * resolution
          /\ \A k \in 1 .. Len(segment_mesh.indices) :
                segment_mesh.indices[k] \in 0 .. (Len(segment_mesh.vertices) - 1)
          /\ \A k \in 1 .. Len(segment_mesh.triangles) :
                segment_mesh.triangles[k] = PatternTriangle(k)
    /\ (segment_mesh # NotBuilt /\ resolution = TargetResolution /\ radius_extend # 0) =>
          /\ Len(segment_mesh.vertices) = 12
          /\ Len(segment_mesh.triangles) = 10
          /\ \A k \in 1 .. Len(segment_mesh.indices) : segment_mesh.indices[k] \in 0 .. 11
    /\ (line_mesh # NotBuilt) =>
          /\ Len(line_mesh.vertices) = 4
          /\ Len(line_mesh.triangles) = 2
          /\ \A k \in 1 .. Len(line_mesh.indices) : line_mesh.indices[k] \in 0 .. 3
          /\ \A k \in 1 .. 2 : SameTriangle(line_mesh.triangles[k], PatternTriangle(k))

\* the program's own two meshes: resolution 5 over +-25 degrees, and the needle
C15_Witness ==
    /\ resolution = TargetResolution /\ radius_extend = TargetRadiusExtend
    /\ segment_mesh.status = "Spawned" /\ line_mesh.status = "Spawned"

C17_UnchangedWithoutScore ==
    score = 0 => (Abs(rotation_speed) = InitialSpeed /\ target_rotation = 0)

(* C18: a key held from the previous frame and not released gives no commit *)
(* in this frame whatever Press (repeat) events arrive; a press of a key    *)
(* that was up gives one; within a frame no system runs twice and the input *)
(* does not change, so Score changes only in the one commit step of a frame *)
(* and by 1.                                                                *)
C18_EdgeTriggeredCommit ==
    [][/\ (pending = {} /\ pressed
            /\ \A i \in 1 .. Len(key_events') : key_events'[i] # "Release") => ~just_pressed'
       /\ (pending = {} /\ ~pressed
            /\ \E i \in 1 .. Len(key_events') : key_events'[i] = "Press") => just_pressed'
       /\ (pending # {}) => (just_pressed' = just_pressed
                             /\ pending' \subseteq pending /\ pending' # pending)
       /\ (score' # score) => (CommitStep /\ score' = score + 1)]_vars

\* a frame has passed with the key held (a repeated Press arrived) after the one score,
\* the needle still over the target
C18_Witness ==
    /\ pending = {} /\ state = "Playing" /\ next_state = "Unchanged"
    /\ pressed /\ ~just_pressed /\ key_events = <<"Press">>
    /\ score = 1 /\ segments_are_intersecting

(* C19: in a frame taken in Playing rotate_line is scheduled once and       *)
(* replaces the needle angle by angle - speed (one time unit, the speed as  *)
(* it is when rotate_line runs); no other step, and no step in GameOver,    *)
(* changes the needle angle.                                                *)
C19_NeedleRotatesWhilePlaying ==
    [][/\ RotateStep => (state = "Playing"
                         /\ needle_rotation' = (needle_rotation - rotation_speed) % FullTurn)
       /\ (needle_rotation' # needle_rotation) => RotateStep
       /\ (pending = {} /\ state' = "Playing") => "rotate_line" \in pending'
       /\ (state = "GameOver") => needle_rotation' = needle_rotation]_vars

\* the needle was rotated with a negative speed, after the commit that flipped it
C19_Witness ==
    /\ state = "Playing" /\ just_pressed /\ rotation_speed < 0 /\ needle_rotation # 0
    /\ "rotate_line" \notin pending /\ "reverse_rotate_direction" \notin pending
    /\ pending # {}

(* C20: the needle's speed is never 0.                                      *)
C20_SpeedNeverZero == rotation_speed # 0

====
